---- MODULE Spec2Model ----
(***************************************************************************)
(* Model of the blame parsers of the vendored GitPython Repo class         *)
(* (src/lib/git/repo/base.py): Repo.blame_incremental, a generator that is *)
(* resumed once per pull, and Repo.blame, a loop over the lines of the     *)
(* porcelain output; and of the plugin itself (src/tab_closer.py), the     *)
(* listener that closes the tabs of deleted and renamed files (TabSpec).   *)
(*                                                                         *)
(* The output of `git blame` is the input of the model.  A behaviour       *)
(* starts from one input (an attribution of a file of N lines to commits,  *)
(* the call that is made, and possibly one fault in the stream) and the    *)
(* actions are the steps of the two parsers on the stream that git emits   *)
(* for it.                                                                 *)
(*                                                                         *)
(* Python values: a bytes/str line is a record (kind, head, rest) for the  *)
(* header and tag lines, whose words are kept apart, and a sequence of     *)
(* one-character strings for content lines and e-mail values, which the    *)
(* code strips character by character.  A dict is a function on its keys.  *)
(* A Commit object is a record with the field oid, the identity of the     *)
(* object: two references are the same instance iff their oid is equal.    *)
(* The plugin runs on the Python 3.3 of its host, in which a StopIteration *)
(* that leaves the body of a generator ends the generator (the comment on  *)
(* base.py line 691 relies on it).                                         *)
(***************************************************************************)
EXTENDS Integers, Sequences, FiniteSets, TLC

VARIABLES
    input,      \* what git was asked and what it answered: attribution, call, fault
    istream,    \* blame_incremental: `stream`, the non-empty lines of data
    ipos,       \* blame_incremental: index of the line the next next(stream) returns
    icommits,   \* blame_incremental: `commits`, hexsha -> Commit
    ientries,   \* the BlameEntry values yielded so far, in order
    ipc,        \* the generator: "suspended", "done" (ended) or the exception it raised
    istop,      \* which next(stream) found the stream exhausted ("none" if none did)
    fstream,    \* blame: data.splitlines(keepends)
    fpos,       \* blame: index of the line the for loop takes next
    fcommits,   \* blame: `commits`, hexsha -> Commit
    blames,     \* blame: `blames`, a list of [commit, lines]
    info,       \* blame: `info`, None or a dict
    fpc,        \* blame: "loop", "returned" or the exception it raised
    built,      \* every Commit(...) construction so far: <<parser, hexsha, oid>>
    nobjs,      \* number of Commit objects constructed so far (next oid - 1)
    project,    \* the host: the folder of every window, the folders that are git repositories
    views,      \* the host's tabs: view id -> window_id (0 once closed), file_name, scratch
    git_manager,\* TabCloserEventListener.git_manager: None or a GitManager
    event,      \* the last on_activated_async call: its view, what git reported, how it ended
    disk,       \* Repo(path, search_parent_directories=...): the arguments and the file system
    opening     \* Repo.__init__: its locals and where it is

rvars == <<disk, opening>>

tvars == <<project, views, git_manager, event, rvars>>

vars == <<input, istream, ipos, icommits, ientries, ipc, istop,
          fstream, fpos, fcommits, blames, info, fpc, built, nobjs, tvars>>

ivars == <<istream, ipos, icommits, ientries, ipc, istop>>
fvars == <<fstream, fpos, fcommits, blames, info, fpc>>

----------------------------------------------------------------------------
(* Bounds *)

MaxLines == 3       \* the file has 1..MaxLines lines

Shas == {"a1", "b2"}        \* the commit ids git may name (40 hex digits each)
FirstSha == "a1"

----------------------------------------------------------------------------
(* Python values *)

None == [py |-> "None"]

EmptyDict == [k \in {} |-> None]

Put(d, k, v) == [x \in (DOMAIN d) \cup {k} |-> IF x = k THEN v ELSE d[x]]

Last(s) == s[Len(s)]

TAB == "\t"
NL == "\n"
SP == " "
BAD == "0xFF"       \* a byte that is not valid in the default encoding

Whitespace == {TAB, NL, SP}

RECURSIVE LStrip(_, _)
\* bytes.lstrip(chars): every leading character that is in chars is removed
LStrip(s, chars) ==
    IF s # <<>> /\ Head(s) \in chars THEN LStrip(Tail(s), chars) ELSE s

RECURSIVE RStrip(_, _)
\* bytes.rstrip(chars)
RStrip(s, chars) ==
    IF s # <<>> /\ Last(s) \in chars THEN RStrip(SubSeq(s, 1, Len(s) - 1), chars) ELSE s

\* range(a, b)
Range(a, b) == [start |-> a, stop |-> b]

RangeSet(r) == r.start .. (r.stop - 1)

RangeLen(r) == IF r.stop > r.start THEN r.stop - r.start ELSE 0

\* gitdb.util.hex_to_bin: the 20 bytes the 40 hex digits stand for
HexToBin(hexsha) == <<"bin", hexsha>>

\* Commit.hexsha: bin_to_hex(binsha)
HexSha(commit) == commit.binsha[2]

----------------------------------------------------------------------------
(* Lines of git's output *)

Hdr(sha, nums) == [kind |-> "hdr", head |-> sha, rest |-> nums]
TagLine(tag, value) == [kind |-> "tag", head |-> tag, rest |-> value]
Bare(word) == [kind |-> "bare", head |-> word, rest |-> <<>>]
Content(raw) == [kind |-> "content", head |-> "", rest |-> raw]

\* Mutant: a header without line count is given the count 1.
SplitWordsDefaultCount(line) ==
    CASE line.kind = "hdr" -> <<line.head>> \o line.rest \o (IF Len(line.rest) = 2 THEN <<1>> ELSE <<>>)
      [] line.kind = "tag" -> <<line.head, line.rest>>
      [] line.kind = "bare" -> <<line.head>>
      [] OTHER -> <<>>

\* line.split(): the words of the line
SplitWords(line) ==
    CASE line.kind = "hdr" -> <<line.head>> \o line.rest
      [] line.kind = "tag" -> <<line.head, line.rest>>
      [] line.kind = "bare" -> <<line.head>>
      [] OTHER -> <<>>

\* line.split(b' ', 1): the first word and the remainder
SplitOnce(line) ==
    CASE line.kind \in {"hdr", "tag"} -> <<line.head, line.rest>>
      [] OTHER -> <<line.head>>

----------------------------------------------------------------------------
(* What git emits: the input of the parsers *)

Paths == <<"old.txt", "new.txt">>

Digits == <<"1", "2", "3", "4", "5", "6", "7", "8", "9">>

RECURSIVE RunSeqs(_, _, _)
\* The attributions of the lines start..n of a file, as runs in file order: run
\* number idx gives `size` lines from final line `lineno` to commit `sha`, which
\* had them from line `orig` of file `path`.
RunSeqs(start, n, idx) ==
    IF start > n THEN {<<>>}
    ELSE UNION {
        { <<[sha |-> sha, orig |-> start + idx - 1, lineno |-> start,
             size |-> size, path |-> Paths[(idx % 2) + 1]]>> \o more :
            sha \in (IF idx = 1 THEN {FirstSha} ELSE Shas),
            more \in RunSeqs(start + size, n, idx + 1) } :
        size \in 1 .. (n - start + 1) }

Attributions == UNION { RunSeqs(1, n, 1) : n \in 1 .. MaxLines }

Reverse(s) == [i \in 1 .. Len(s) |-> s[Len(s) + 1 - i]]

\* The commit information git prints the first time it shows a commit.
MetaLines(sha) ==
    << TagLine("author", "A-" \o sha),
       TagLine("author-mail", <<"<", sha, "@", "x", ">">>),
       TagLine("author-time", 100),
       TagLine("author-tz", "+0100"),
       TagLine("committer", "C-" \o sha),
       TagLine("committer-mail", <<"<", "c", "@", sha, ">">>),
       TagLine("committer-time", 200),
       TagLine("committer-tz", "+0200"),
       TagLine("summary", "msg") >>

RECURSIVE EncodeIncremental(_, _)
\* git blame --incremental: per run a four-field header, the commit information
\* if the commit was not shown before, and the filename line.
EncodeIncremental(runs, shown) ==
    IF runs = <<>> THEN <<>>
    ELSE LET r == Head(runs) IN
        <<Hdr(r.sha, <<r.orig, r.lineno, r.size>>)>>
        \o (IF r.sha \in shown THEN <<>> ELSE MetaLines(r.sha))
        \o <<TagLine("filename", r.path)>>
        \o EncodeIncremental(Tail(runs), shown \cup {r.sha})

\* The bytes of file line k as git blame --porcelain prints them: a tab, the
\* line, the line end.  Every line carries its own mark, Digits[k].
ContentLine(k, var) ==
    IF var.at # k THEN Content(<<TAB, Digits[k], NL>>)
    ELSE CASE var.kind = "binary" -> Content(<<TAB, BAD, Digits[k], NL>>)
           [] var.kind = "tabbed" -> Content(<<TAB, TAB, Digits[k], NL>>)
           [] var.kind = "trail" -> Content(<<TAB, Digits[k], SP, NL>>)
           [] OTHER -> Content(<<TAB, Digits[k], NL>>)

RECURSIVE Continuation(_, _, _)
\* The lines 2..size of a run: a three-field header and the content line each.
Continuation(r, j, var) ==
    IF j >= r.size THEN <<>>
    ELSE <<Hdr(r.sha, <<r.orig + j, r.lineno + j>>), ContentLine(r.lineno + j, var)>>
         \o Continuation(r, j + 1, var)

RECURSIVE EncodePorcelain(_, _, _, _)
\* git blame --porcelain: per run a four-field header, the commit information
\* and the filename line if the commit was not shown before (the filename line
\* alone, when repfn, if it was), and the content line; then the continuation.
EncodePorcelain(runs, shown, repfn, var) ==
    IF runs = <<>> THEN <<>>
    ELSE LET r == Head(runs) IN
        <<Hdr(r.sha, <<r.orig, r.lineno, r.size>>)>>
        \o (IF r.sha \notin shown THEN MetaLines(r.sha) \o <<TagLine("filename", r.path)>>
            ELSE IF repfn THEN <<TagLine("filename", r.path)>> ELSE <<>>)
        \o <<ContentLine(r.lineno, var)>>
        \o Continuation(r, 1, var)
        \o EncodePorcelain(Tail(runs), shown \cup {r.sha}, repfn, var)

\* The name in the commit information that is printed a second time.
Again == "again"

RemoveAt(s, j) == SubSeq(s, 1, j - 1) \o SubSeq(s, j + 1, Len(s))

InsertAt(s, j, x) == SubSeq(s, 1, j - 1) \o <<x>> \o SubSeq(s, j, Len(s))

\* One variation of the stream: it ends early (cut), a line is missing (drop), a
\* header has no line count (three), a tag line has another tag (retag), a
\* boundary line or a previous line stands before line `at`, or commit
\* information stands before line `at`, after the header of a commit that was
\* shown before (again).
Vary(s, var) ==
    CASE var.kind = "cut" -> SubSeq(s, 1, var.at)
      [] var.kind = "drop" -> RemoveAt(s, var.at)
      [] var.kind = "three" ->
            [s EXCEPT ![var.at] = Hdr(@.head, SubSeq(@.rest, 1, 2))]
      [] var.kind = "retag" -> [s EXCEPT ![var.at] = TagLine("summary", @.rest)]
      [] var.kind = "boundary" -> InsertAt(s, var.at, Bare("boundary"))
      [] var.kind = "previous" ->
            InsertAt(s, var.at, TagLine("previous", <<"b2", Paths[1]>>))
      [] var.kind = "again" ->
            SubSeq(s, 1, var.at - 1) \o MetaLines(Again) \o SubSeq(s, var.at, Len(s))
      [] OTHER -> s

NoVar == [kind |-> "none", at |-> 0]

\* The variations of a stream s.
StreamVars(s) ==
    {NoVar}
    \cup { [kind |-> "cut", at |-> k] : k \in 0 .. (Len(s) - 1) }
    \cup { [kind |-> "drop", at |-> j] : j \in 1 .. Len(s) }
    \cup { [kind |-> "three", at |-> j] :
            j \in { i \in 1 .. Len(s) : s[i].kind = "hdr" /\ Len(s[i].rest) = 3 } }
    \cup { [kind |-> "retag", at |-> j] :
            j \in { i \in 1 .. Len(s) : s[i].kind = "tag" /\ s[i].head = "filename" } }
    \cup { [kind |-> k, at |-> j] : k \in {"boundary", "previous"}, j \in 1 .. Len(s) }
    \cup { [kind |-> "again", at |-> j + 1] :
            j \in { i \in 1 .. Len(s) :
                      /\ s[i].kind = "hdr"
                      /\ \E h \in 1 .. (i - 1) :
                            s[h].kind = "hdr" /\ s[h].head = s[i].head } }

\* The variations of the content of a file of n lines.
ContentVars(n) ==
    { [kind |-> k, at |-> i] : k \in {"binary", "tabbed", "trail"}, i \in 1 .. n }

FileLines(runs) == Last(runs).lineno + Last(runs).size - 1

IncInputs(runs) ==
    UNION { { [plan |-> "inc", runs |-> runs, rev |-> rev, repfn |-> FALSE, var |-> var] :
                var \in StreamVars(EncodeIncremental(
                            IF rev THEN Reverse(runs) ELSE runs, {})) } :
            rev \in BOOLEAN }

FullInputs(runs) ==
    UNION { { [plan |-> "full", runs |-> runs, rev |-> FALSE, repfn |-> repfn, var |-> var] :
                var \in StreamVars(EncodePorcelain(runs, {}, repfn, NoVar))
                        \cup ContentVars(FileLines(runs)) } :
            repfn \in BOOLEAN }

BothInputs(runs) ==
    { [plan |-> "both", runs |-> runs, rev |-> rev, repfn |-> repfn, var |-> NoVar] :
        rev \in BOOLEAN, repfn \in BOOLEAN }

Inputs ==
    UNION { IncInputs(runs) \cup FullInputs(runs) \cup BothInputs(runs) :
            runs \in Attributions }

IncStream(in) ==
    IF in.plan = "full" THEN <<>>
    ELSE Vary(EncodeIncremental(IF in.rev THEN Reverse(in.runs) ELSE in.runs, {}), in.var)

FullStream(in) ==
    IF in.plan = "inc" THEN <<>>
    ELSE Vary(EncodePorcelain(in.runs, {}, in.repfn, in.var), in.var)

\* The stream is what git prints for the attribution: every block is complete.
\* A boundary line and a previous line belong to the commit information,
\* between two tag lines.
WellFormed(in) ==
    \/ in.var.kind \in {"none", "binary", "tabbed", "trail"}
    \/ /\ in.var.kind \in {"boundary", "previous"}
       /\ LET s == IF in.plan = "full" THEN FullStream(in) ELSE IncStream(in)
              j == in.var.at
          IN  /\ j > 1 /\ j < Len(s)
              /\ s[j - 1].kind = "tag" /\ s[j + 1].kind = "tag"

----------------------------------------------------------------------------
(* Repo.blame_incremental *)

\* git.compat.safe_decode: the text of a bytes value
SafeDecode(b) == [str |-> b]

\* Actor(name, email)
Actor(name, email) == [name |-> name, email |-> email]

\* Commit(repo, binsha, author=, authored_date=, committer=, committed_date=):
\* a new object, oid its identity
Commit(oid, binsha, author, authored_date, committer, committed_date) ==
    [oid |-> oid, binsha |-> binsha, author |-> author, authored_date |-> authored_date,
     committer |-> committer, committed_date |-> committed_date]

\* The keys the construction of the Commit reads from props.
RequiredTags ==
    {"author", "author-mail", "author-time", "committer", "committer-mail", "committer-time"}

\* The words of a header line unpack into four names, of which three are
\* integers.  (Of the lines git prints only a header has four words.)
HeaderUnpacks(words) == Len(words) = 4

\* Mutant: the cache is never consulted.
NotInCommitsAlways(hexsha, commits) == TRUE

\* `hexsha not in commits`
NotInCommits(hexsha, commits) == hexsha \notin DOMAIN commits

\* Mutant: the assertion is not made.
AssertFilenameOff(tag) == TRUE

\* `assert tag == b'filename'`
AssertFilename(tag) == tag = "filename"

\* Mutant: no line is taken for a boundary line.
IsBoundaryNever(line) == FALSE

\* `line == b'boundary'`
IsBoundary(line) == line = Bare("boundary")

RECURSIVE ReadProps(_, _, _)
\* The inner loop: read lines into props up to and including the filename line.
ReadProps(s, pos, props) ==
    IF pos > Len(s) THEN [st |-> "StopIteration", pos |-> pos, props |-> props]
    ELSE LET line == s[pos] IN
        IF IsBoundary(line) THEN ReadProps(s, pos + 1, props)
        ELSE LET parts == SplitOnce(line) IN
            IF Len(parts) # 2
            THEN [st |-> "ValueError", pos |-> pos + 1, props |-> props]
            ELSE LET props2 == Put(props, parts[1], parts[2]) IN
                IF parts[1] = "filename"
                THEN [st |-> "filename", pos |-> pos + 1, props |-> props2]
                ELSE ReadProps(s, pos + 1, props2)

\* Mutant: only the bracket in front is taken off the e-mail values.
CommitOfPropsLeftStripOnly(oid, hexsha, props) ==
    Commit(oid, HexToBin(hexsha),
           Actor(SafeDecode(props["author"]),
                 SafeDecode(LStrip(props["author-mail"], {"<"}))),
           props["author-time"],
           Actor(SafeDecode(props["committer"]),
                 SafeDecode(LStrip(props["committer-mail"], {"<"}))),
           props["committer-time"])

\* The Commit built from props.
CommitOfProps(oid, hexsha, props) ==
    Commit(oid, HexToBin(hexsha),
           Actor(SafeDecode(props["author"]),
                 SafeDecode(RStrip(LStrip(props["author-mail"], {"<"}), {">"}))),
           props["author-time"],
           Actor(SafeDecode(props["committer"]),
                 SafeDecode(RStrip(LStrip(props["committer-mail"], {"<"}), {">"}))),
           props["committer-time"])

\* Mutant: the final range stops one line early.
BlameEntryShortRange(commit, lineno, num_lines, orig_filename, orig_lineno) ==
    [commit |-> commit,
     linenos |-> Range(lineno, lineno + num_lines - 1),
     orig_path |-> SafeDecode(orig_filename),
     orig_linenos |-> Range(orig_lineno, orig_lineno + num_lines)]

\* Mutant: the entry holds a new Commit object, not the cached one.
BlameEntryOwnCommit(commit, lineno, num_lines, orig_filename, orig_lineno) ==
    [commit |-> [commit EXCEPT !.oid = 100 * @ + lineno],
     linenos |-> Range(lineno, lineno + num_lines),
     orig_path |-> SafeDecode(orig_filename),
     orig_linenos |-> Range(orig_lineno, orig_lineno + num_lines)]

\* Mutant: the original range stops where the final range stops.
BlameEntryMixedStop(commit, lineno, num_lines, orig_filename, orig_lineno) ==
    [commit |-> commit,
     linenos |-> Range(lineno, lineno + num_lines),
     orig_path |-> SafeDecode(orig_filename),
     orig_linenos |-> Range(orig_lineno, lineno + num_lines)]

\* Mutant: the final range is taken from the original line number.
BlameEntryOrigAsFinal(commit, lineno, num_lines, orig_filename, orig_lineno) ==
    [commit |-> commit,
     linenos |-> Range(orig_lineno, orig_lineno + num_lines),
     orig_path |-> SafeDecode(orig_filename),
     orig_linenos |-> Range(orig_lineno, orig_lineno + num_lines)]

\* Mutant: the path is that of the first entry of the commit.
BlameEntryFirstPath(commit, lineno, num_lines, orig_filename, orig_lineno) ==
    LET before == SelectSeq(ientries, LAMBDA e : e.commit = commit)
    IN  [commit |-> commit,
         linenos |-> Range(lineno, lineno + num_lines),
         orig_path |-> IF before = <<>> THEN SafeDecode(orig_filename)
                       ELSE before[1].orig_path,
         orig_linenos |-> Range(orig_lineno, orig_lineno + num_lines)]

\* BlameEntry(commits[hexsha], range(lineno, lineno + num_lines),
\*            safe_decode(orig_filename), range(orig_lineno, orig_lineno + num_lines))
BlameEntry(commit, lineno, num_lines, orig_filename, orig_lineno) ==
    [commit |-> commit,
     linenos |-> Range(lineno, lineno + num_lines),
     orig_path |-> SafeDecode(orig_filename),
     orig_linenos |-> Range(orig_lineno, orig_lineno + num_lines)]

\* Mutant: the filename line is left in the stream when the entry is yielded.
IncOutcomeLeavesFilename(st, stop, pos, commits, entry, new) ==
    [st |-> st, stop |-> stop, pos |-> IF st = "yield" THEN pos - 1 ELSE pos,
     commits |-> commits, entry |-> entry, new |-> new]

\* Mutant: a KeyError is caught and the block is passed on without a commit.
IncOutcomeIgnoresKeyError(st, stop, pos, commits, entry, new) ==
    [st |-> IF st = "KeyError" THEN "yield" ELSE st, stop |-> stop, pos |-> pos,
     commits |-> commits, entry |-> entry, new |-> new]

\* Mutant: the generator has read one line ahead when it stops.
IncOutcomeReadAhead(st, stop, pos, commits, entry, new) ==
    [st |-> st, stop |-> stop, pos |-> pos + 1, commits |-> commits, entry |-> entry,
     new |-> new]

IncOutcome(st, stop, pos, commits, entry, new) ==
    [st |-> st, stop |-> stop, pos |-> pos, commits |-> commits, entry |-> entry, new |-> new]

\* One resumption of the generator, from the next(stream) of line 691 to the
\* yield, the end of the stream or an exception.  oid is the identity a Commit
\* constructed now gets.
IncResume(s, pos, commits, oid) ==
    IF pos > Len(s) THEN IncOutcome("StopIteration", "header", pos, commits, None, FALSE)
    ELSE LET words == SplitWords(s[pos]) IN
    IF ~HeaderUnpacks(words)
    THEN IncOutcome("ValueError", "none", pos + 1, commits, None, FALSE)
    ELSE LET hexsha == words[1]
             orig_lineno == words[2]
             lineno == words[3]
             num_lines == words[4]
    IN  IF NotInCommits(hexsha, commits)
        THEN LET p == ReadProps(s, pos + 1, EmptyDict) IN
            IF p.st = "StopIteration"
            THEN IncOutcome("StopIteration", "props", p.pos, commits, None, FALSE)
            ELSE IF p.st # "filename"
            THEN IncOutcome(p.st, "none", p.pos, commits, None, FALSE)
            ELSE IF ~(RequiredTags \subseteq DOMAIN p.props)
            THEN IncOutcome("KeyError", "none", p.pos, commits, None, FALSE)
            ELSE LET c == CommitOfProps(oid, hexsha, p.props)
                     commits2 == Put(commits, hexsha, c)
                 IN  IncOutcome("yield", "none", p.pos, commits2,
                                BlameEntry(commits2[hexsha], lineno, num_lines,
                                           p.props["filename"], orig_lineno), TRUE)
        ELSE IF pos + 1 > Len(s)
            THEN IncOutcome("StopIteration", "filename", pos + 1, commits, None, FALSE)
            ELSE LET parts == SplitOnce(s[pos + 1]) IN
                IF Len(parts) # 2
                THEN IncOutcome("ValueError", "none", pos + 2, commits, None, FALSE)
                ELSE IF ~AssertFilename(parts[1])
                THEN IncOutcome("AssertionError", "none", pos + 2, commits, None, FALSE)
                ELSE IncOutcome("yield", "none", pos + 2, commits,
                                BlameEntry(commits[hexsha], lineno, num_lines,
                                           parts[2], orig_lineno), FALSE)

IncNow == IncResume(istream, ipos, icommits, nobjs + 1)

IncHexsha == SplitWords(istream[ipos])[1]

\* next(gen): the generator runs to its yield.
IncYield ==
    /\ ipc = "suspended"
    /\ IncNow.st = "yield"
    /\ ipos' = IncNow.pos
    /\ icommits' = IncNow.commits
    /\ ientries' = Append(ientries, IncNow.entry)
    /\ IF IncNow.new
       THEN /\ nobjs' = nobjs + 1
            /\ built' = Append(built, <<"inc", IncHexsha, nobjs + 1>>)
       ELSE UNCHANGED <<nobjs, built>>
    /\ UNCHANGED <<input, istream, ipc, istop, fvars, tvars>>

\* next(gen): a next(stream) finds the stream exhausted; its StopIteration
\* leaves the body of the generator, which ends it.
IncEnd ==
    /\ ipc = "suspended"
    /\ IncNow.st = "StopIteration"
    /\ ipos' = IncNow.pos
    /\ ipc' = "done"
    /\ istop' = IncNow.stop
    /\ UNCHANGED <<input, istream, icommits, ientries, fvars, built, nobjs, tvars>>

\* next(gen): the generator raises ValueError, KeyError or AssertionError.
IncRaise ==
    /\ ipc = "suspended"
    /\ IncNow.st \in {"ValueError", "KeyError", "AssertionError"}
    /\ ipos' = IncNow.pos
    /\ ipc' = IncNow.st
    /\ UNCHANGED <<input, istream, icommits, ientries, istop, fvars, built, nobjs, tvars>>

----------------------------------------------------------------------------
(* Repo.blame *)

\* line.rstrip().decode(defenc) raises UnicodeDecodeError
IsBinary(line) ==
    line.kind = "content" /\ \E i \in 1 .. Len(line.rest) : line.rest[i] = BAD

\* line.rstrip().decode(defenc), for a content line: its characters
Decoded(line) == RStrip(line.rest, Whitespace)

\* parts[0] of re_whitespace.split(line, 1), or '' for a binary line
FirstPart(line) ==
    IF IsBinary(line) THEN ""
    ELSE IF line.kind # "content" THEN line.head
    ELSE IF Decoded(line) = <<>> \/ Decoded(line)[1] \in Whitespace THEN ""
    ELSE Decoded(line)[1]

\* parts[-1]
LastPart(line) == IF line.kind = "bare" THEN line.head ELSE line.rest

\* re_hexsha_only.search(firstpart)
IsHexsha(firstpart) == firstpart \in Shas

\* len(digits), digits = parts[-1].split(" ")
NumDigits(line) == Len(LastPart(line))

\* re_author_committer_start.search(firstpart).group(0), "" when there is no match
Role(firstpart) ==
    CASE firstpart \in {"author", "author-mail", "author-time", "author-tz"} -> "author"
      [] firstpart \in {"committer", "committer-mail", "committer-time", "committer-tz"}
            -> "committer"
      [] OTHER -> ""

EndsWithMail(firstpart) == firstpart \in {"author-mail", "committer-mail"}

EndsWithTime(firstpart) == firstpart \in {"author-time", "committer-time"}

\* Mutant: every other line of text with a first word is stored in info.
FilenameOrSummaryOrRest(firstpart) == firstpart # ""

\* firstpart.startswith('filename'), firstpart.startswith('summary')
FilenameOrSummary(firstpart) == firstpart \in {"filename", "summary"}

\* The keys of info the construction of the Commit reads.
RequiredInfo ==
    {"author", "author_email", "author_date", "committer", "committer_email", "committer_date"}

\* Actor._from_string(name + ' ' + email): the Actor of that string
ActorFromString(name, email) == [from_string |-> <<name, SP, email>>]

\* The Commit built from info.
CommitOfInfo(oid, sha, inf) ==
    Commit(oid, HexToBin(sha),
           ActorFromString(inf["author"], inf["author_email"]),
           inf["author_date"],
           ActorFromString(inf["committer"], inf["committer_email"]),
           inf["committer_date"])

\* Mutant: the lookup never finds the commit.
CommitsGetMisses(commits, sha) == None

\* Mutant: one cache for all parses; the dict of the generator is consulted too.
CommitsGetShared(commits, sha) ==
    IF sha \in DOMAIN commits THEN commits[sha]
    ELSE IF sha \in DOMAIN icommits THEN icommits[sha]
    ELSE None

\* commits.get(sha)
CommitsGet(commits, sha) == IF sha \in DOMAIN commits THEN commits[sha] ELSE None

\* Mutant: the tab is stripped from a binary line too.
StoredLineStripsBinary(line, is_binary) ==
    IF ~is_binary
    THEN LET text == Decoded(line) IN
         IF text # <<>> /\ text[1] = TAB THEN [str |-> Tail(text)] ELSE [str |-> text]
    ELSE [bytes |-> IF line.rest # <<>> /\ line.rest[1] = TAB THEN Tail(line.rest)
                    ELSE line.rest]

\* The line appended to the group: the decoded line without its first tab, or
\* the bytes of a binary line as they are.
StoredLine(line, is_binary) ==
    IF ~is_binary
    THEN LET text == Decoded(line) IN
         IF text # <<>> /\ text[1] = TAB THEN [str |-> Tail(text)] ELSE [str |-> text]
    ELSE [bytes |-> line.rest]

Group(commit, lines) == [commit |-> commit, lines |-> lines]

\* Mutant: the line replaces the lines of the group.
AppendLineReplaces(bl, c, line) ==
    [bl EXCEPT ![Len(bl)] = Group(c, <<line>>)]

\* blames[-1][0] = c; blames[-1][1].append(line)
AppendLine(bl, c, line) ==
    [bl EXCEPT ![Len(bl)] = Group(c, Append(bl[Len(bl)].lines, line))]

\* Mutant: the new group is put in front of the list.
AppendGroupInFront(bl, commit) == <<Group(commit, <<>>)>> \o bl

\* blames.append([commit, []])
AppendGroup(bl, commit) == Append(bl, Group(commit, <<>>))

\* Mutant: a header with a line count and the id of info continues the group.
HeaderStartsGroupCoalescing(line, inf) ==
    IF inf # None /\ inf["id"] = FirstPart(line) THEN "no"
    ELSE IF NumDigits(line) = 3 THEN "count"
    ELSE "id"

\* Mutant: only a line count starts a group.
HeaderStartsGroupCountOnly(line, inf) ==
    IF NumDigits(line) = 3 THEN "count" ELSE "no"

\* A header line starts a new group: it has a line count, or its id is not the
\* id of info.
HeaderStartsGroup(line, inf) ==
    IF NumDigits(line) = 3 THEN "count"
    ELSE IF inf["id"] # FirstPart(line) THEN "id"
    ELSE "no"

FullOutcome(st, commits, bl, inf, new) ==
    [st |-> st, commits |-> commits, blames |-> bl, info |-> inf, new |-> new]

\* One iteration of the loop over the lines.
BlameLine(line, commits, bl, inf, oid) ==
    LET firstpart == FirstPart(line)
        is_binary == IsBinary(line)
        same == FullOutcome("ok", commits, bl, inf, FALSE)
        raise(e) == FullOutcome(e, commits, bl, inf, FALSE)
    IN
    IF IsHexsha(firstpart)
    THEN IF NumDigits(line) # 3 /\ inf = None THEN raise("TypeError")
         ELSE CASE HeaderStartsGroup(line, inf) = "count" ->
                    FullOutcome("ok", commits, AppendGroup(bl, None),
                                [id |-> firstpart], FALSE)
                [] HeaderStartsGroup(line, inf) = "id" ->
                    FullOutcome("ok", commits,
                                AppendGroup(bl, CommitsGet(commits, firstpart)),
                                [id |-> firstpart], FALSE)
                [] OTHER -> same
    ELSE IF Role(firstpart) # ""
    THEN IF EndsWithMail(firstpart)
         THEN IF inf = None THEN raise("TypeError")
              ELSE FullOutcome("ok", commits, bl,
                               Put(inf, Role(firstpart) \o "_email", LastPart(line)), FALSE)
         ELSE IF EndsWithTime(firstpart)
         THEN IF line.kind = "bare" THEN raise("ValueError")
              ELSE IF inf = None THEN raise("TypeError")
              ELSE FullOutcome("ok", commits, bl,
                               Put(inf, Role(firstpart) \o "_date", LastPart(line)), FALSE)
         ELSE IF Role(firstpart) = firstpart
         THEN IF inf = None THEN raise("TypeError")
              ELSE FullOutcome("ok", commits, bl, Put(inf, Role(firstpart), LastPart(line)),
                               FALSE)
         ELSE same
    ELSE IF FilenameOrSummary(firstpart)
    THEN IF inf = None THEN raise("TypeError")
         ELSE FullOutcome("ok", commits, bl, Put(inf, firstpart, LastPart(line)), FALSE)
    ELSE IF firstpart = "" /\ inf # None
    THEN LET sha == inf["id"]
             cached == CommitsGet(commits, sha)
         IN  IF cached = None /\ ~(RequiredInfo \subseteq DOMAIN inf) THEN raise("KeyError")
             ELSE LET c == IF cached = None THEN CommitOfInfo(oid, sha, inf) ELSE cached
                  IN  FullOutcome("ok",
                                  IF cached = None THEN Put(commits, sha, c) ELSE commits,
                                  AppendLine(bl, c, StoredLine(line, is_binary)),
                                  [id |-> sha], cached = None)
    ELSE same

FullNow == BlameLine(fstream[fpos], fcommits, blames, info, nobjs + 1)

\* The loop takes the next line and handles it.
FullLine ==
    /\ fpc = "loop"
    /\ fpos <= Len(fstream)
    /\ FullNow.st = "ok"
    /\ fpos' = fpos + 1
    /\ fcommits' = FullNow.commits
    /\ blames' = FullNow.blames
    /\ info' = FullNow.info
    /\ IF FullNow.new
       THEN /\ nobjs' = nobjs + 1
            /\ built' = Append(built, <<"full", info["id"], nobjs + 1>>)
       ELSE UNCHANGED <<nobjs, built>>
    /\ UNCHANGED <<input, fstream, fpc, ivars, tvars>>

\* The handling of the line raises TypeError, KeyError or ValueError.
FullRaise ==
    /\ fpc = "loop"
    /\ fpos <= Len(fstream)
    /\ FullNow.st # "ok"
    /\ fpc' = FullNow.st
    /\ UNCHANGED <<input, fstream, fpos, fcommits, blames, info, ivars, built, nobjs, tvars>>

\* The lines are exhausted: return blames.
FullReturn ==
    /\ fpc = "loop"
    /\ fpos > Len(fstream)
    /\ fpc' = "returned"
    /\ UNCHANGED <<input, fstream, fpos, fcommits, blames, info, ivars, built, nobjs, tvars>>

----------------------------------------------------------------------------
(* The plugin (src/tab_closer.py)                                          *)
(*                                                                         *)
(* The host editor calls on_activated_async, one call at a time, with a    *)
(* view that is open.  A path is a str: a record whose field str is the    *)
(* sequence of its characters.  A view that was closed has window_id 0 and *)
(* its window() is None.  What git reports for HEAD@{1}..HEAD is an input  *)
(* of every call: the checkout may change between two activations.         *)

MaxViews == 3       \* the host has MaxViews tabs
ViewIds == 1 .. MaxViews
Windows == {1, 2}

\* The tabs are spread over the two windows when the listener is loaded.
WindowAtStart(t) == 1 + ((t - 1) % 2)

Str(chars) == [str |-> chars]
DirP == Str(<<"/", "p">>)
DirQ == Str(<<"/", "q">>)
FileNames == { None,
               Str(<<"/", "p", "/", "a">>),
               Str(<<"/", "p", "/", "b", "a">>),
               Str(<<"/", "q", "/", "a">>) }

\* One entry of a DiffIndex.
Diff(change_type, a_path, b_path) ==
    [change_type |-> change_type, a_path |-> a_path, b_path |-> b_path]

Diffs == { Diff("D", <<"a">>, <<"a">>),
           Diff("R", <<"a">>, <<"c">>),
           Diff("M", <<"a">>, <<"a">>),
           Diff("D", <<"b", "a">>, <<"b", "a">>) }

\* What `git diff HEAD@{1} HEAD` answers: no reflog entry HEAD@{1}, or a list
\* of entries, one per path.
GitStates ==
    { [reflog |-> FALSE, index |-> <<>>] } \cup
    { [reflog |-> TRUE, index |-> i] :
        i \in { <<>> } \cup { <<d>> : d \in Diffs } \cup
              { p \in Diffs \X Diffs : /\ p[1].a_path # p[2].a_path
                                        /\ p[2].change_type # "M" } }

\* str.endswith
EndsWith(s, suffix) ==
    /\ Len(suffix) <= Len(s)
    /\ SubSeq(s, Len(s) - Len(suffix) + 1, Len(s)) = suffix

\* view.window(): None for a view that was closed.
WindowOf(vs, view) ==
    IF vs[view].window_id = 0 THEN None ELSE [window_id |-> vs[view].window_id]

\* window.views(): the open tabs of the window, in tab order.
ViewsOf(vs, window) ==
    SelectSeq([t \in ViewIds |-> t], LAMBDA t : vs[t].window_id = window.window_id)

\* Mutant: the folder of the first window is taken, whatever the view.
get_project_dirOfFirstWindow(view) ==
    LET folder == project.folder[1]
    IN  IF folder = None THEN [st |-> "KeyError"]
                         ELSE [st |-> "ok", value |-> folder]

\* view.window().extract_variables()['folder']
get_project_dir(view) ==
    LET folder == project.folder[WindowOf(views, view).window_id]
    IN  IF folder = None THEN [st |-> "KeyError"]
                         ELSE [st |-> "ok", value |-> folder]

\* Repo(path), as the plugin calls it: the path has to be a git repository.
Repo(path) ==
    IF path \in project.repos
        THEN [st |-> "ok", value |-> [working_dir |-> path]]
        ELSE [st |-> "InvalidGitRepositoryError"]

\* GitManager.__init__
GitManager(repo_directory) ==
    LET repo == Repo(repo_directory)
    IN  IF repo.st = "ok" THEN [st |-> "ok", value |-> [repo |-> repo.value]]
                          ELSE repo

\* diff.iter_change_type(change_type)
IterChangeType(index, change_type) ==
    SelectSeq(index, LAMBDA d : d.change_type = change_type)

\* Mutant: the renamed files are left out of the chain.
get_differenceDeletedOnly(self, git) ==
    IF ~git.reflog
        THEN [st |-> "BadName"]
        ELSE [st |-> "ok", value |-> IterChangeType(git.index, "D")]

\* GitManager.get_difference: chain(deleted, renamed)
get_difference(self, git) ==
    IF ~git.reflog
        THEN [st |-> "BadName"]
        ELSE [st |-> "ok",
              value |-> IterChangeType(git.index, "D")
                            \o IterChangeType(git.index, "R")]

\* tab.set_scratch(True); tab.close()
CloseTab(vs, tab) ==
    [vs EXCEPT ![tab] = [@ EXCEPT !.scratch = TRUE, !.window_id = 0]]

\* The inner loop over the tabs of one window, for one diff (lines 67-70).
RECURSIVE ForTabs(_, _, _)
ForTabs(vs, tabs, diff) ==
    IF tabs = <<>> THEN vs
    ELSE LET tab == Head(tabs)
             hit == /\ vs[tab].file_name # None
                    /\ EndsWith(vs[tab].file_name.str, diff.a_path)
         IN  ForTabs(IF hit THEN CloseTab(vs, tab) ELSE vs, Tail(tabs), diff)

\* The outer loop (line 66); view.window() is evaluated once per diff.
RECURSIVE ForDiffs(_, _, _)
ForDiffs(vs, view, differences) ==
    IF differences = <<>> THEN [st |-> "returned", views |-> vs]
    ELSE LET window == WindowOf(vs, view)
         IN  IF window = None
                 THEN [st |-> "AttributeError", views |-> vs]
                 ELSE ForDiffs(ForTabs(vs, ViewsOf(vs, window), Head(differences)),
                               view, Tail(differences))

\* The whole handler: st is "returned" or the exception that left it.
Activated(view, git) ==
    LET dir  == get_project_dir(view)
        made == IF git_manager # None THEN [st |-> "ok", value |-> git_manager]
                ELSE IF dir.st # "ok" THEN dir
                ELSE GitManager(dir.value)
        differences == get_difference(made.value, git)
    IN  IF made.st # "ok"
            THEN [st |-> made.st, git_manager |-> git_manager, views |-> views]
        ELSE IF differences.st # "ok"
            THEN [st |-> differences.st, git_manager |-> made.value, views |-> views]
        ELSE LET done == ForDiffs(views, view, differences.value)
             IN  [st |-> done.st, git_manager |-> made.value, views |-> done.views]

on_activated_async(view, git) ==
    /\ views[view].window_id # 0
    /\ LET call == Activated(view, git)
       IN  /\ git_manager' = call.git_manager
           /\ views' = call.views
           /\ event' = [view |-> view, git |-> git, st |-> call.st]
    /\ UNCHANGED <<project, input, ivars, fvars, built, nobjs, rvars>>

NoEvent == [view |-> 0, git |-> None, st |-> "none"]

----------------------------------------------------------------------------
(* Repo.__init__ (src/lib/git/repo/base.py, lines 113-171)                 *)
(*                                                                         *)
(* epath is absolute and normalised (_expand_path ends in abspath): a path *)
(* is the sequence of its components, the root the empty sequence.  Of the *)
(* file system the call can see the directories from the root down to      *)
(* epath: whether epath exists, and for each of them whether it is a git   *)
(* directory (is_git_dir), holds a .git that leads to one (find_git_dir),  *)
(* or is a plain directory.  A path in a local or a result is a record     *)
(* with the field dir.                                                     *)

MaxDepth == 3       \* epath has at most MaxDepth components

Components == <<"a", "b", "c", "d", "e", "f">>

PathOfDepth(k) == SubSeq(Components, 1, k)

Kinds == {"plain", "gitdir", "worktree"}

Dir(p) == [dir |-> p]

Disks ==
    UNION { { d \in [path : {PathOfDepth(k)}, exists : BOOLEAN, kind : [0 .. k -> Kinds],
                     search_parent_directories : BOOLEAN] :
                d.exists \/ (k > 0 /\ d.kind[k] = "plain") } :
            k \in 0 .. MaxDepth }

\* os.path.exists(epath)
PathExists(p) == p # disk.path \/ disk.exists

\* is_git_dir(curpath)
is_git_dir(p) == disk.kind[Len(p)] = "gitdir"

\* join(curpath, '.git')
Join(p, name) == Append(p, name)

\* find_git_dir(d), d the .git of a directory: the git directory or None
find_git_dir(d) ==
    IF disk.kind[Len(d) - 1] = "worktree" THEN Dir(d) ELSE None

\* os.path.split: of the root the root and '', else the parent and the last
\* component
Split(p) == IF p = <<>> THEN <<p, "">> ELSE <<SubSeq(p, 1, Len(p) - 1), Last(p)>>

\* os.path.dirname
Dirname(p) == Split(p)[1]

WalkOutcome(git_dir, working_tree_dir, curpath, again) ==
    [git_dir |-> git_dir, working_tree_dir |-> working_tree_dir, curpath |-> curpath,
     again |-> again]

\* Mutant: the parent directories are searched whatever the argument says.
WalkStepAlwaysUp(curpath, search_parent_directories) ==
    IF is_git_dir(curpath)
        THEN WalkOutcome(Dir(curpath), Dir(Dirname(curpath)), curpath, FALSE)
    ELSE LET gitpath == find_git_dir(Join(curpath, ".git")) IN
    IF gitpath # None
        THEN WalkOutcome(gitpath, Dir(curpath), curpath, FALSE)
    ELSE LET parts == Split(curpath) IN
         IF parts[2] = "" THEN WalkOutcome(None, None, parts[1], FALSE)
         ELSE WalkOutcome(None, None, parts[1], TRUE)

\* One pass of `while curpath:` (lines 147-167).  again: the loop goes on (an
\* absolute path, the root too, is a non-empty string).
WalkStep(curpath, search_parent_directories) ==
    IF is_git_dir(curpath)
        THEN WalkOutcome(Dir(curpath), Dir(Dirname(curpath)), curpath, FALSE)
    ELSE LET gitpath == find_git_dir(Join(curpath, ".git")) IN
    IF gitpath # None
        THEN WalkOutcome(gitpath, Dir(curpath), curpath, FALSE)
    ELSE IF ~search_parent_directories
        THEN WalkOutcome(None, None, curpath, FALSE)
    ELSE LET parts == Split(curpath) IN
         IF parts[2] = "" THEN WalkOutcome(None, None, parts[1], FALSE)
         ELSE WalkOutcome(None, None, parts[1], TRUE)

NotOpening ==
    [pc |-> "idle", curpath |-> None, git_dir |-> None, working_tree_dir |-> None,
     working_dir |-> None, examined |-> {}, passes |-> 0]

\* Lines 136-145: epath has to exist.
RepoEnter ==
    /\ opening.pc = "called"
    /\ opening' = IF PathExists(disk.path)
                      THEN [opening EXCEPT !.pc = "loop", !.curpath = Dir(disk.path)]
                      ELSE [opening EXCEPT !.pc = "NoSuchPathError"]
    /\ UNCHANGED <<disk, project, views, git_manager, event,
                   input, ivars, fvars, built, nobjs>>

\* One pass of the loop.  examined: the directories that were looked at.
RepoWalk ==
    /\ opening.pc = "loop"
    /\ LET step == WalkStep(opening.curpath.dir, disk.search_parent_directories)
       IN  opening' = [opening EXCEPT
                         !.pc = IF step.again THEN "loop" ELSE "after",
                         !.curpath = Dir(step.curpath),
                         !.git_dir = step.git_dir,
                         !.working_tree_dir = step.working_tree_dir,
                         !.examined = @ \cup {opening.curpath.dir},
                         !.passes = @ + 1]
    /\ UNCHANGED <<disk, project, views, git_manager, event,
                   input, ivars, fvars, built, nobjs>>

\* Lines 169-185: no git directory is an error; a bare repository has no
\* working tree (core.bare is read from the repository's configuration).
RepoFinish ==
    /\ opening.pc = "after"
    /\ \E bare \in BOOLEAN :
          opening' =
            IF opening.git_dir = None
                THEN [opening EXCEPT !.pc = "InvalidGitRepositoryError"]
            ELSE IF bare
                THEN [opening EXCEPT !.pc = "constructed", !.working_tree_dir = None,
                                     !.working_dir = opening.git_dir]
                ELSE [opening EXCEPT !.pc = "constructed",
                                     !.working_dir = opening.working_tree_dir]
    /\ UNCHANGED <<disk, project, views, git_manager, event,
                   input, ivars, fvars, built, nobjs>>

----------------------------------------------------------------------------

Init ==
    /\ input \in Inputs
    /\ istream = IncStream(input)
    /\ ipos = 1
    /\ icommits = EmptyDict
    /\ ientries = <<>>
    /\ ipc = IF input.plan = "full" THEN "idle" ELSE "suspended"
    /\ istop = "none"
    /\ fstream = FullStream(input)
    /\ fpos = 1
    /\ fcommits = EmptyDict
    /\ blames = <<>>
    /\ info = None
    /\ fpc = IF input.plan = "inc" THEN "idle" ELSE "loop"
    /\ built = <<>>
    /\ nobjs = 0
    /\ project = [folder |-> <<>>, repos |-> {}]
    /\ views = <<>>
    /\ git_manager = None
    /\ event = NoEvent
    /\ disk = None
    /\ opening = NotOpening

Next ==
    \/ IncYield
    \/ IncEnd
    \/ IncRaise
    \/ FullLine
    \/ FullRaise
    \/ FullReturn

Spec == Init /\ [][Next]_vars

\* The plugin in its host: the tabs that are open and the folders of the two
\* windows when the listener is loaded; no blame is running.
TabInit ==
    /\ project \in [folder : [Windows -> {DirP, DirQ, None}],
                    repos  : SUBSET {DirP, DirQ} \ {{}}]
    /\ project.folder[1] = DirP
    /\ project.folder[2] # DirP
    /\ project.repos \subseteq { project.folder[w] : w \in Windows }
    /\ views \in [ViewIds -> [window_id : Windows, file_name : FileNames,
                              scratch : {FALSE}]]
    /\ \A t \in ViewIds : views[t].window_id = WindowAtStart(t)
    /\ git_manager = None
    /\ event = NoEvent
    /\ disk = None
    /\ opening = NotOpening
    /\ input = None
    /\ istream = <<>> /\ ipos = 1 /\ icommits = EmptyDict /\ ientries = <<>>
    /\ ipc = "idle" /\ istop = "none"
    /\ fstream = <<>> /\ fpos = 1 /\ fcommits = EmptyDict /\ blames = <<>>
    /\ info = None /\ fpc = "idle"
    /\ built = <<>> /\ nobjs = 0

TabNext ==
    \E view \in ViewIds, git \in GitStates : on_activated_async(view, git)

TabSpec == TabInit /\ [][TabNext]_vars

\* A call Repo(path, search_parent_directories=...) on some file system; no
\* blame is running and the listener is not loaded.
RepoInit ==
    /\ disk \in Disks
    /\ opening = [NotOpening EXCEPT !.pc = "called"]
    /\ project = [folder |-> <<>>, repos |-> {}]
    /\ views = <<>>
    /\ git_manager = None
    /\ event = NoEvent
    /\ input = None
    /\ istream = <<>> /\ ipos = 1 /\ icommits = EmptyDict /\ ientries = <<>>
    /\ ipc = "idle" /\ istop = "none"
    /\ fstream = <<>> /\ fpos = 1 /\ fcommits = EmptyDict /\ blames = <<>>
    /\ info = None /\ fpc = "idle"
    /\ built = <<>> /\ nobjs = 0

RepoNext ==
    \/ RepoEnter
    \/ RepoWalk
    \/ RepoFinish

RepoSpec == RepoInit /\ [][RepoNext]_vars

----------------------------------------------------------------------------
(* Vocabulary of the properties *)

\* The number of lines of the file the input is about.
NumLines == FileLines(input.runs)

\* The run that final line k belongs to.
RunOfLine(k) ==
    LET i == CHOOSE j \in 1 .. Len(input.runs) :
                 k \in input.runs[j].lineno .. (input.runs[j].lineno + input.runs[j].size - 1)
    IN  input.runs[i]

\* The indices of the lines of kind `kind` in stream s, in order.
RECURSIVE Positions(_, _, _)
Positions(s, kind, from) ==
    IF from > Len(s) THEN <<>>
    ELSE (IF s[from].kind = kind THEN <<from>> ELSE <<>>) \o Positions(s, kind, from + 1)

\* The header line that precedes position p of s most closely (p itself if none).
RECURSIVE HeaderBefore(_, _)
HeaderBefore(s, p) ==
    IF p <= 1 THEN s[p]
    ELSE IF s[p - 1].kind = "hdr" THEN s[p - 1] ELSE HeaderBefore(s, p - 1)

\* The lines of all groups in order, each with the commit of its group.
RECURSIVE Flatten(_)
Flatten(bl) ==
    IF bl = <<>> THEN <<>>
    ELSE [i \in 1 .. Len(Head(bl).lines) |->
            [commit |-> Head(bl).commit, line |-> Head(bl).lines[i]]] \o Flatten(Tail(bl))

\* The characters of a stored line.
Chars(stored) == IF "str" \in DOMAIN stored THEN stored.str ELSE stored.bytes

\* The marks (Digits) a sequence of characters carries.
Marks(chars) == { chars[i] : i \in 1 .. Len(chars) } \cap { Digits[i] : i \in 1 .. Len(Digits) }

IncErrors == {"ValueError", "KeyError", "AssertionError"}

FullErrors == {"ValueError", "KeyError", "TypeError"}

\* (commit id, final line number) pairs of the full-mode groups, the concatenated
\* lines numbered from 1.
FullPairs ==
    LET flat == Flatten(blames)
    IN  { <<HexSha(flat[k].commit), k>> : k \in 1 .. Len(flat) }

\* (commit id, final line number) pairs of the incremental entries.
IncPairs ==
    UNION { { <<HexSha(ientries[i].commit), l>> : l \in RangeSet(ientries[i].linenos) } :
            i \in 1 .. Len(ientries) }

----------------------------------------------------------------------------
(* C1 *)

\* C1: when blame_incremental has been consumed to its end on a well-formed
\* stream about a file of N lines, the linenos ranges of the yielded entries are
\* pairwise disjoint and their union is 1..N.
C1_IncrementalCoverage ==
    (input.plan # "full" /\ WellFormed(input) /\ ipc = "done") =>
        /\ \A i, j \in 1 .. Len(ientries) :
                i # j => RangeSet(ientries[i].linenos) \cap RangeSet(ientries[j].linenos) = {}
        /\ UNION { RangeSet(ientries[i].linenos) : i \in 1 .. Len(ientries) } = 1 .. NumLines

C1_Witness ==
    /\ input.plan = "inc" /\ WellFormed(input) /\ input.rev /\ ipc = "done"
    /\ Len(ientries) >= 2
    /\ \E i \in 1 .. Len(ientries) : RangeLen(ientries[i].linenos) >= 2

----------------------------------------------------------------------------
(* C2 *)

\* C2: when blame() returns on a well-formed porcelain stream, the lines of its
\* groups, concatenated in group order, are the content lines of the stream, each
\* once and in stream order (the k-th stored line carries the mark of the k-th
\* content line and no other), and each sits in a group whose commit has the id
\* of the header that precedes that content line.
C2_FullLineConservation ==
    (input.plan # "inc" /\ WellFormed(input) /\ fpc = "returned") =>
        LET flat == Flatten(blames)
            cs == Positions(fstream, "content", 1)
        IN  /\ Len(flat) = Len(cs)
            /\ Len(cs) = NumLines
            /\ \A k \in 1 .. Len(cs) :
                /\ Marks(Chars(flat[k].line)) = Marks(fstream[cs[k]].rest)
                /\ Marks(Chars(flat[k].line)) = {Digits[k]}
                /\ flat[k].commit # None
                /\ HexSha(flat[k].commit) = HeaderBefore(fstream, cs[k]).head

C2_Witness ==
    /\ input.plan = "full" /\ WellFormed(input) /\ fpc = "returned"
    /\ Len(blames) >= 2
    /\ \E g \in 1 .. Len(blames) : Len(blames[g].lines) >= 2

----------------------------------------------------------------------------
(* C3 *)

\* C3: within one parse, entries (incremental) or groups (full) that share a
\* commit id hold the very same Commit object, and a parse constructs at most
\* one Commit per commit id.
C3_CacheIdentity ==
    /\ \A i, j \in 1 .. Len(ientries) :
            HexSha(ientries[i].commit) = HexSha(ientries[j].commit)
                => ientries[i].commit.oid = ientries[j].commit.oid
    /\ \A i, j \in 1 .. Len(blames) :
            (/\ blames[i].commit # None /\ blames[j].commit # None
             /\ HexSha(blames[i].commit) = HexSha(blames[j].commit))
                => blames[i].commit.oid = blames[j].commit.oid
    /\ \A i, j \in 1 .. Len(built) :
            (built[i][1] = built[j][1] /\ built[i][2] = built[j][2]) => i = j

C3_Witness ==
    /\ \E i, j \in 1 .. Len(ientries) :
            i + 1 < j /\ ientries[i].commit = ientries[j].commit
    /\ \E i, j \in 1 .. Len(blames) :
            i + 1 < j /\ blames[i].commit # None /\ blames[i].commit = blames[j].commit

----------------------------------------------------------------------------
(* C4 *)

\* C4: every entry blame_incremental yields has len(linenos) = len(orig_linenos)
\* = the group-size of the header the resumption read, linenos starting at the
\* header's final-lineno and orig_linenos at its orig-lineno.
C4_RangeLengthEquality ==
    [][ Len(ientries') = Len(ientries) + 1 =>
            LET h == istream[ipos]
                e == Last(ientries')
            IN  /\ RangeLen(e.linenos) = RangeLen(e.orig_linenos)
                /\ RangeLen(e.linenos) = h.rest[3]
                /\ e.linenos.start = h.rest[2]
                /\ e.orig_linenos.start = h.rest[1] ]_vars

C4_Witness ==
    \E i \in 1 .. Len(ientries) :
        /\ RangeLen(ientries[i].linenos) >= 2
        /\ ientries[i].linenos.start # ientries[i].orig_linenos.start

----------------------------------------------------------------------------
(* C5 *)

\* C5: for one attribution, parsed by blame() from the porcelain stream and by
\* blame_incremental from the incremental stream, the (commit id, final line
\* number) pairs of the groups equal those of the entries.
C5_ModeEquivalence ==
    (input.plan = "both" /\ ipc = "done" /\ fpc = "returned") => FullPairs = IncPairs

C5_Witness ==
    /\ input.plan = "both" /\ input.rev /\ ipc = "done" /\ fpc = "returned"
    /\ Cardinality({ p[1] : p \in FullPairs }) >= 2
    /\ Cardinality(IncPairs) >= MaxLines
    /\ Len(ientries) < Cardinality(IncPairs)

----------------------------------------------------------------------------
(* C6 *)

\* C6: in full mode a content line that does not decode is appended to its group
\* as its bytes, unchanged; the parse does not abort; the lines after it are
\* decoded and stripped of their tab as usual, and the headers after it are
\* recognised (every line is in a group of the commit git attributes it to).
C6_BinarySafety ==
    (input.plan = "full" /\ input.var.kind = "binary") =>
        /\ fpc \notin FullErrors
        /\ fpc = "returned" =>
            LET flat == Flatten(blames)
                cs == Positions(fstream, "content", 1)
                k == input.var.at
            IN  /\ Len(flat) = NumLines
                /\ flat[k].line = [bytes |-> fstream[cs[k]].rest]
                /\ Head(fstream[cs[k]].rest) = TAB /\ Last(fstream[cs[k]].rest) = NL
                /\ \A j \in 1 .. NumLines :
                    /\ j # k => flat[j].line = [str |-> <<Digits[j]>>]
                    /\ HexSha(flat[j].commit) = RunOfLine(j).sha

C6_Witness ==
    /\ input.plan = "full" /\ input.var.kind = "binary" /\ fpc = "returned"
    /\ input.var.at < NumLines
    /\ RunOfLine(input.var.at).sha # RunOfLine(NumLines).sha
    /\ "bytes" \in DOMAIN Flatten(blames)[input.var.at].line

----------------------------------------------------------------------------
(* C7 *)

\* C7: when blame_incremental reads a header whose commit id is cached and the
\* line after the header does not have the tag filename, the resumption raises
\* (AssertionError, or ValueError for a line of one word) and yields no entry;
\* once it has raised, the generator yields nothing more.
C7_IncrementalProtocolViolation ==
    [][ /\ ( /\ ipc = "suspended" /\ ivars' # ivars
             /\ ipos + 1 <= Len(istream)
             /\ Len(SplitWords(istream[ipos])) = 4
             /\ istream[ipos].head \in DOMAIN icommits
             /\ istream[ipos + 1].head # "filename" )
            => (ipc' \in {"AssertionError", "ValueError"} /\ ientries' = ientries)
        /\ ipc \in IncErrors => (ipc' = ipc /\ ientries' = ientries) ]_vars

C7_Witness ==
    /\ ipc = "AssertionError" /\ ipos >= 3
    /\ Len(ientries) >= 1
    /\ istream[ipos - 2].kind = "hdr"
    /\ istream[ipos - 2].head \in DOMAIN icommits
    /\ istream[ipos - 1].kind = "tag" /\ istream[ipos - 1].head # "filename"

----------------------------------------------------------------------------
(* C8 *)

\* The stream has a header whose commit id was seen before (a content line of
\* that commit precedes it) and that is not followed by a filename line.
SeenHeaderWithoutFilename(s) ==
    \E q \in 1 .. (Len(s) - 1) :
        /\ s[q].kind = "hdr"
        /\ s[q + 1].head # "filename"
        /\ \E p \in 1 .. (q - 1) :
            /\ s[p].kind = "content"
            /\ HeaderBefore(s, p).kind = "hdr"
            /\ HeaderBefore(s, p).head = s[q].head

\* C8 as claimed: in full mode, when a header's commit id was seen before and
\* the line after the header is not a filename line, blame() fails instead of
\* returning.
C8_FullProtocolViolation ==
    (input.plan = "full" /\ SeenHeaderWithoutFilename(fstream)) => fpc # "returned"

\* C8 as amended: in full mode, when a header's commit id is cached and the line
\* after the header is the content line (no filename line between them), the
\* line is handled without an exception: it is appended to the group in
\* progress, whose commit becomes the cached Commit, no Commit is constructed,
\* and the loop goes on.
C8_SeenHeaderThenContent ==
    [][ ( /\ fpc = "loop" /\ fvars' # fvars
          /\ fpos >= 2 /\ fpos <= Len(fstream)
          /\ fstream[fpos].kind = "content"
          /\ fstream[fpos - 1].kind = "hdr"
          /\ fstream[fpos - 1].head \in DOMAIN fcommits )
        => ( /\ fpc' = "loop" /\ fpos' = fpos + 1
             /\ Len(blames') = Len(blames)
             /\ Last(blames').commit = fcommits[fstream[fpos - 1].head]
             /\ Len(Last(blames').lines) = Len(Last(blames).lines) + 1
             /\ Marks(Chars(Last(Last(blames').lines))) = Marks(fstream[fpos].rest)
             /\ fcommits' = fcommits /\ nobjs' = nobjs ) ]_vars

C8_Witness ==
    /\ input.plan = "full" /\ fpc = "returned"
    /\ SeenHeaderWithoutFilename(fstream)
    /\ \E q \in 2 .. (Len(fstream) - 1) :
        /\ fstream[q].kind = "hdr" /\ Len(fstream[q].rest) = 3
        /\ fstream[q + 1].kind = "content"
        /\ fstream[q].head \in DOMAIN fcommits
        /\ fstream[q].head # fstream[1].head

----------------------------------------------------------------------------
(* C9 *)

\* C9 as claimed: blame_incremental accepts a header without group-size too and
\* yields one entry per header line.
C9_ThreeFieldHeadersAccepted ==
    (input.plan = "inc" /\ input.var.kind = "three" /\ ipc # "suspended") =>
        (ipc = "done" /\ Len(ientries) = Len(Positions(istream, "hdr", 1)))

\* C9 as amended: blame_incremental accepts four-field headers only.  On a
\* well-formed stream it yields exactly one entry per header line; a header
\* without group-size raises ValueError when it is read, after one entry for
\* each header before it and none for it or any later header.
C9_FourFieldHeadersOnly ==
    /\ (input.plan # "full" /\ WellFormed(input) /\ ipc = "done") =>
            Len(ientries) = Len(Positions(istream, "hdr", 1))
    /\ (input.plan = "inc" /\ input.var.kind = "three" /\ ipc # "suspended") =>
            /\ ipc = "ValueError"
            /\ ipos = input.var.at + 1
            /\ Len(ientries) = Len(Positions(SubSeq(istream, 1, input.var.at - 1), "hdr", 1))

C9_Witness ==
    /\ input.plan = "inc" /\ input.var.kind = "three" /\ ipc = "ValueError"
    /\ Len(ientries) >= 1
    /\ istream[input.var.at].head \in DOMAIN icommits

----------------------------------------------------------------------------
(* C10 *)

\* C10 as claimed: the generator ends like an exhausted sequence only when the
\* stream is exhausted where a header is expected; exhaustion inside a block
\* (in the commit information, or before the filename line of a cached commit)
\* does not end it that way.
C10_TruncationIsAnError ==
    ipc = "done" => istop = "header"

----------------------------------------------------------------------------
(* C11 *)

\* C11: on a well-formed stream blame_incremental never raises; it ends only
\* where a header is expected, with the whole stream consumed and one entry
\* yielded for every block (every filename line); and it does reach this end:
\* while it is suspended the next pull (IncYield or IncEnd, of which IncNow.st is
\* the guard) is enabled and yields or ends, it cannot raise or hang,
\* and every entry yielded has consumed at least two more lines of the finite
\* stream, so the pulls are at most half the lines of the stream plus one.
C11_CleanTermination ==
    (input.plan # "full" /\ WellFormed(input)) =>
        /\ ipc \notin IncErrors
        /\ ipc = "suspended" =>
            /\ IncNow.st \in {"yield", "StopIteration"}
            /\ 2 * Len(ientries) < ipos
            /\ ipos <= Len(istream) + 1
        /\ ipc = "done" =>
            /\ istop = "header"
            /\ ipos = Len(istream) + 1
            /\ Len(ientries) =
                 Cardinality({ i \in 1 .. Len(istream) : istream[i].head = "filename" })

C11_Witness ==
    /\ input.plan = "inc" /\ WellFormed(input)
    /\ ipc = "done" /\ istop = "header"
    /\ Len(ientries) >= 2
    /\ Cardinality(DOMAIN icommits) < Len(ientries)

----------------------------------------------------------------------------
(* Vocabulary of the plugin's properties *)

\* The entries git reports as deleted or renamed.
Reported(git) ==
    { git.index[i] : i \in { j \in DOMAIN git.index :
                               git.index[j].change_type \in {"D", "R"} } }

\* The file of the repository's working tree that a path of the diff names.
FileIn(repo, a_path) == Str(repo.working_dir.str \o <<"/">> \o a_path)

\* The tabs that were open in the window of the activated view.
InWindowOf(view, t) == views[t].window_id = views[view].window_id

(* C12 *)
\* C12: when a call of on_activated_async returns, every tab that was open in
\* the window of the activated view and whose file is a file that git reports
\* as deleted, or as renamed (taken by its old path a_path), between HEAD@{1}
\* and HEAD is closed and marked scratch.
C12_DeletedTabsClosed ==
    [][ event'.st = "returned" =>
          \A t \in ViewIds : \A d \in Reported(event'.git) :
              ( /\ InWindowOf(event'.view, t)
                /\ views[t].file_name = FileIn(git_manager'.repo, d.a_path) )
              => ( views'[t].window_id = 0 /\ views'[t].scratch ) ]_vars

C12_Witness ==
    /\ event.st = "returned"
    /\ \E t \in ViewIds : \E d \in Reported(event.git) :
          /\ d.change_type = "R"
          /\ views[t].file_name = FileIn(git_manager.repo, d.a_path)
          /\ views[t].window_id = 0
          /\ views[t].scratch
    /\ \E t \in ViewIds : views[t].window_id # 0 /\ views[t].file_name # None

(* C13 *)
\* C13: on_activated_async changes (closes, marks scratch) only tabs that have
\* a file name and whose file is a file that git reports as deleted or renamed;
\* every other tab is left as it was.
C13_OnlyDeletedTabsClosed ==
    [][ \A t \in ViewIds :
          views'[t] # views[t] =>
              /\ views[t].file_name # None
              /\ \E d \in Reported(event'.git) :
                    views[t].file_name = FileIn(git_manager'.repo, d.a_path) ]_vars

----------------------------------------------------------------------------
(* C14 *)

\* The final line number of the file that a stored content line carries.
LineNoOf(stored) ==
    CHOOSE k \in 1 .. Len(Digits) : Digits[k] \in Marks(Chars(stored))

\* The headers among the first n lines of s that carry a line count, in order.
CountHeaders(s, n) ==
    SelectSeq(Positions(s, "hdr", 1), LAMBDA p : p <= n /\ Len(s[p].rest) = 3)

\* C14: on a well-formed stream neither parser reorders.  The k-th entry that
\* blame_incremental yields is the entry of the k-th header of the stream, and
\* when git printed the headers in ascending final line number the entries
\* start at strictly increasing final line numbers.  The g-th group of blame()
\* is the group of the g-th header with a line count; its first line is the
\* final line that header names, so the groups start at strictly increasing
\* final line numbers.
C14_OutputOrdering ==
    /\ (input.plan # "full" /\ WellFormed(input)) =>
          LET hdrs == Positions(istream, "hdr", 1)
          IN  /\ Len(ientries) <= Len(hdrs)
              /\ \A k \in 1 .. Len(ientries) :
                    /\ ientries[k].linenos.start = istream[hdrs[k]].rest[2]
                    /\ HexSha(ientries[k].commit) = istream[hdrs[k]].head
              /\ ~input.rev =>
                    \A k \in 1 .. (Len(ientries) - 1) :
                        ientries[k].linenos.start < ientries[k + 1].linenos.start
    /\ (input.plan # "inc" /\ WellFormed(input) /\ fpc \in {"loop", "returned"}) =>
          LET hdrs == CountHeaders(fstream, fpos - 1)
              started == { g \in 1 .. Len(blames) : blames[g].lines # <<>> }
          IN  /\ Len(blames) = Len(hdrs)
              /\ \A g \in started :
                    LineNoOf(blames[g].lines[1]) = fstream[hdrs[g]].rest[2]
              /\ \A g, h \in started :
                    g < h => LineNoOf(blames[g].lines[1]) < LineNoOf(blames[h].lines[1])

C14_Witness ==
    /\ input.plan = "both" /\ ~input.rev
    /\ ipc = "done" /\ fpc = "returned"
    /\ Len(ientries) >= 3
    /\ Len(blames) >= 3
    /\ \A g \in 1 .. Len(blames) : blames[g].lines # <<>>

----------------------------------------------------------------------------
(* C15 *)

\* Line p of s is a header that has a line count, or whose commit id is not the
\* commit id of the header before it.
OpensGroup(s, p) ==
    /\ s[p].kind = "hdr"
    /\ \/ Len(s[p].rest) = 3
       \/ HeaderBefore(s, p).head # s[p].head

\* C15: a step of blame() that handles a line adds a group (an empty one, at
\* the end of the list) exactly when the line is a header that carries a line
\* count or whose commit id differs from the id of the preceding header; any
\* other header leaves the list as it is, and a content line is appended to
\* the last group, the groups before it and the number of groups unchanged.
C15_GroupBoundaries ==
    [][ (fpc = "loop" /\ fpos' = fpos + 1) =>
          LET line == fstream[fpos]
              n    == Len(blames)
          IN  IF OpensGroup(fstream, fpos)
              THEN /\ Len(blames') = n + 1
                   /\ SubSeq(blames', 1, n) = blames
                   /\ blames'[n + 1].lines = <<>>
              ELSE /\ Len(blames') = n
                   /\ line.kind # "content" => blames' = blames
                   /\ (line.kind = "content" /\ blames' # blames) =>
                         /\ SubSeq(blames', 1, n - 1) = SubSeq(blames, 1, n - 1)
                         /\ Len(blames'[n].lines) = Len(blames[n].lines) + 1
                         /\ SubSeq(blames'[n].lines, 1, Len(blames[n].lines))
                                = blames[n].lines ]_vars

\* A header without a line count and with a new commit id opened the second
\* group; two lines of one commit share the first.
C15_Witness ==
    /\ input.plan = "full" /\ input.var.kind = "three"
    /\ fpc = "returned"
    /\ Len(blames) = 2
    /\ Len(blames[1].lines) = 2 /\ Len(blames[2].lines) = 1
    /\ HexSha(blames[1].commit) # HexSha(blames[2].commit)

----------------------------------------------------------------------------
(* C16 *)

\* C16 as claimed: in the list blame() returns, no two adjacent groups have the
\* same commit record, each group being a maximal run of lines of one commit.
C16_NoAdjacentGroupsOfOneCommit ==
    (input.plan # "inc" /\ WellFormed(input) /\ fpc = "returned") =>
        \A g \in 1 .. (Len(blames) - 1) : blames[g].commit # blames[g + 1].commit

\* C16 amended: the groups blame() returns are the runs git printed, one group
\* per header with a line count: group g has the lines of run g (as many as
\* the run's size) and the commit of run g.  Two adjacent runs of one commit
\* stay two groups, and these hold the same commit record.
C16_GroupsAreRuns ==
    (input.plan # "inc" /\ WellFormed(input) /\ fpc = "returned") =>
        /\ Len(blames) = Len(input.runs)
        /\ \A g \in 1 .. Len(blames) :
              /\ Len(blames[g].lines) = input.runs[g].size
              /\ HexSha(blames[g].commit) = input.runs[g].sha
              /\ \A i \in 1 .. Len(blames[g].lines) :
                    LineNoOf(blames[g].lines[i]) = input.runs[g].lineno + i - 1
        /\ \A g \in 1 .. (Len(blames) - 1) :
              input.runs[g].sha = input.runs[g + 1].sha
                  => blames[g].commit = blames[g + 1].commit

C16_Witness ==
    /\ input.plan = "full" /\ WellFormed(input) /\ fpc = "returned"
    /\ Len(blames) = 3
    /\ blames[1].commit = blames[2].commit
    /\ blames[2].commit # blames[3].commit

----------------------------------------------------------------------------
(* C17 *)

\* C17: blame() does not return when the stream ends inside a block (after a
\* header, before its content line); so in a list that blame() returns every
\* group has a commit record and at least one line.
C17_ReturnedGroupsComplete ==
    (input.plan # "inc" /\ fpc = "returned") =>
        \A g \in 1 .. Len(blames) :
            blames[g].commit # None /\ blames[g].lines # <<>>

----------------------------------------------------------------------------
(* C18 *)

\* The source line a content line of the porcelain output carries: what stands
\* between the tab git puts in front and the line end.
SourceLine(line) == SubSeq(line.rest, 2, Len(line.rest) - 1)

\* C18: when blame() returns on a well-formed stream, the line stored for a
\* content line that decodes as text is the source line itself: the content
\* line without the one tab in front and the line end, further tabs and inner
\* and trailing whitespace kept.
C18_TextFidelity ==
    (input.plan # "inc" /\ WellFormed(input) /\ fpc = "returned") =>
        LET flat == Flatten(blames)
            cont == Positions(fstream, "content", 1)
        IN  \A k \in 1 .. Len(flat) :
                ~IsBinary(fstream[cont[k]]) =>
                    flat[k].line = [str |-> SourceLine(fstream[cont[k]])]

----------------------------------------------------------------------------
(* C19 *)

\* The identities of the Commit objects a parse has cached or handed out.
IncObjects ==
    { icommits[sha].oid : sha \in DOMAIN icommits }
        \cup { ientries[i].commit.oid : i \in 1 .. Len(ientries) }

FullObjects ==
    { fcommits[sha].oid : sha \in DOMAIN fcommits }
        \cup { blames[g].commit.oid :
                 g \in { h \in 1 .. Len(blames) : blames[h].commit # None } }

\* The commit ids for which parser `who` has constructed a Commit.
BuiltBy(who) == { built[i][2] : i \in { j \in 1 .. Len(built) : built[j][1] = who } }

----------------------------------------------------------------------------
(* C20 *)

\* The indices of the filename lines of stream s, in order.
FilenameLines(s) ==
    SelectSeq([i \in 1 .. Len(s) |-> i],
              LAMBDA i : s[i].kind = "tag" /\ s[i].head = "filename")

\* C20: on a well-formed stream, when blame_incremental is suspended after its
\* k-th entry it has consumed the lines up to and including the filename line
\* of block k and not one more (none at all before the first pull): the next
\* line it reads is the one after that filename line, and the commits it has
\* constructed and cached are those of the headers of blocks 1..k only.
C20_LazyConsumption ==
    (input.plan # "full" /\ WellFormed(input) /\ ipc = "suspended") =>
        LET k == Len(ientries)
            fn == FilenameLines(istream)
            consumed == IF k = 0 THEN 0 ELSE fn[k]
            seen == { istream[p].head :
                        p \in { q \in 1 .. consumed : istream[q].kind = "hdr" } }
        IN  /\ k <= Len(fn)
            /\ ipos = consumed + 1
            /\ DOMAIN icommits = seen
            /\ BuiltBy("inc") = seen
            /\ Cardinality({ j \in 1 .. Len(built) : built[j][1] = "inc" })
                  = Cardinality(seen)

\* The consumer has pulled one entry; a block of a commit not yet seen follows.
C20_Witness ==
    /\ input.plan = "inc" /\ WellFormed(input) /\ ipc = "suspended"
    /\ Len(ientries) = 1
    /\ \E p \in ipos .. Len(istream) :
          istream[p].kind = "hdr" /\ istream[p].head \notin DOMAIN icommits
    /\ \E p \in ipos .. Len(istream) :
          istream[p].kind = "hdr" /\ istream[p].head \in DOMAIN icommits

----------------------------------------------------------------------------
(* C21 *)

\* C21: in both modes a commit that is in the cache stays in it as the same
\* record with the same fields, whatever lines follow, the repeated author and
\* committer lines of a full-mode stream included; and the record an entry or
\* a group holds for a cached id is the cached one.
C21_CacheImmutable ==
    [][ /\ \A sha \in DOMAIN icommits :
              sha \in DOMAIN icommits' /\ icommits'[sha] = icommits[sha]
        /\ \A sha \in DOMAIN fcommits :
              sha \in DOMAIN fcommits' /\ fcommits'[sha] = fcommits[sha]
        /\ \A i \in 1 .. Len(ientries') :
              ientries'[i].commit = icommits'[HexSha(ientries'[i].commit)]
        /\ \A g \in 1 .. Len(blames') :
              (blames'[g].commit # None /\ HexSha(blames'[g].commit) \in DOMAIN fcommits')
                  => blames'[g].commit = fcommits'[HexSha(blames'[g].commit)] ]_vars

\* Commit information came again for a cached commit, and the parse went on:
\* the record of the commit still has the author of its first block.
C21_Witness ==
    /\ input.plan = "full" /\ input.var.kind = "again"
    /\ fpc = "returned"
    /\ \E sha \in DOMAIN fcommits :
          /\ fcommits[sha].author = ActorFromString("A-" \o sha, MetaLines(sha)[2].rest)
          /\ Cardinality({ g \in 1 .. Len(blames) : blames[g].commit = fcommits[sha] }) >= 2

----------------------------------------------------------------------------
(* C22 *)

RECURSIVE IncRun(_, _, _, _, _)
\* list(blame_incremental(...)) on stream s: the entries yielded and how the
\* generator ended, n Commit objects having been constructed so far.
IncRun(s, pos, commits, entries, n) ==
    LET r == IncResume(s, pos, commits, n + 1)
    IN  IF r.st = "yield"
            THEN IncRun(s, r.pos, r.commits, Append(entries, r.entry),
                        IF r.new THEN n + 1 ELSE n)
            ELSE [st |-> r.st, entries |-> entries, commits |-> commits]

RECURSIVE FullRun(_, _, _, _, _, _)
\* blame(...) on stream s: the list returned, or the exception.
FullRun(s, pos, commits, bl, inf, n) ==
    IF pos > Len(s) THEN [st |-> "returned", blames |-> bl, commits |-> commits]
    ELSE LET r == BlameLine(s[pos], commits, bl, inf, n + 1)
         IN  IF r.st = "ok"
                 THEN FullRun(s, pos + 1, r.commits, r.blames, r.info,
                              IF r.new THEN n + 1 ELSE n)
                 ELSE [st |-> r.st, blames |-> bl, commits |-> commits]

\* C22: a `boundary` line inside the commit information of a block is skipped
\* by both parsers: the parse does not fail or end at it, and the entries
\* (blame_incremental) and groups (blame), commit records and their fields
\* included, are those the same stream without the boundary line gives.
C22_BoundarySkipped ==
    (input.var.kind = "boundary" /\ WellFormed(input)) =>
        /\ input.plan = "inc" =>
              LET plain == IncRun(RemoveAt(istream, input.var.at), 1, EmptyDict, <<>>, 0)
              IN  /\ ipc \notin IncErrors
                  /\ plain.st = "StopIteration"
                  /\ ipc = "done" => (ientries = plain.entries /\ icommits = plain.commits)
                  /\ ipc = "suspended" =>
                        ientries = SubSeq(plain.entries, 1, Len(ientries))
        /\ input.plan = "full" =>
              LET plain == FullRun(RemoveAt(fstream, input.var.at), 1, EmptyDict, <<>>,
                                   None, 0)
              IN  /\ fpc \notin FullErrors
                  /\ plain.st = "returned"
                  /\ fpc = "returned" => (blames = plain.blames /\ fcommits = plain.commits)
                  /\ (fpc = "loop" /\ fpos = input.var.at) =>
                        BlameLine(fstream[fpos], fcommits, blames, info, nobjs + 1)
                            = FullOutcome("ok", fcommits, blames, info, FALSE)

C22_Witness ==
    /\ input.plan = "full" /\ input.var.kind = "boundary" /\ WellFormed(input)
    /\ fpc = "returned" /\ Len(blames) >= 2
    /\ fstream[input.var.at] = Bare("boundary")
    /\ input.var.at > 2

----------------------------------------------------------------------------
(* C23 *)

\* The value of the line with tag `tag` in the commit information of the first
\* block of commit sha in stream s.
FirstValue(s, sha, tag) ==
    LET h == CHOOSE i \in 1 .. Len(s) :
                /\ s[i].kind = "hdr" /\ s[i].head = sha
                /\ \A j \in 1 .. (i - 1) : ~(s[j].kind = "hdr" /\ s[j].head = sha)
        t == CHOOSE i \in (h + 1) .. Len(s) :
                /\ s[i].kind = "tag" /\ s[i].head = tag
                /\ \A j \in (h + 1) .. (i - 1) : ~(s[j].kind = "tag" /\ s[j].head = tag)
    IN  s[t].rest

\* The value of a mail line `<...>` without the bracket at either end.
Unbracketed(value) == SubSeq(value, 2, Len(value) - 1)

\* C23: on a well-formed stream every Commit that blame_incremental has cached
\* has as author e-mail the value of the author-mail line of its block, and as
\* committer e-mail the value of the committer-mail line, each without the
\* angle bracket at its two ends.
C23_EmailNormalised ==
    (input.plan # "full" /\ WellFormed(input)) =>
        \A sha \in DOMAIN icommits :
            LET am == FirstValue(istream, sha, "author-mail")
                cm == FirstValue(istream, sha, "committer-mail")
            IN  /\ Head(am) = "<" /\ Last(am) = ">"
                /\ Head(cm) = "<" /\ Last(cm) = ">"
                /\ icommits[sha].author.email = SafeDecode(Unbracketed(am))
                /\ icommits[sha].committer.email = SafeDecode(Unbracketed(cm))
                /\ "<" \notin { icommits[sha].author.email.str[i] :
                               i \in 1 .. Len(icommits[sha].author.email.str) }
                /\ ">" \notin { icommits[sha].committer.email.str[i] :
                               i \in 1 .. Len(icommits[sha].committer.email.str) }

C23_Witness ==
    /\ input.plan = "inc" /\ WellFormed(input) /\ ipc = "done"
    /\ Cardinality(DOMAIN icommits) = 2
    /\ \E sha \in DOMAIN icommits :
          icommits[sha].author.email = SafeDecode(<<sha, "@", "x">>)

----------------------------------------------------------------------------
(* C24 *)

\* The incremental stream before its variation.
PlainIncStream ==
    EncodeIncremental(IF input.rev THEN Reverse(input.runs) ELSE input.runs, {})

\* A line of the commit information that the construction of the Commit needs
\* is missing from the stream.
RequiredTagDropped ==
    /\ input.plan = "inc" /\ input.var.kind = "drop"
    /\ PlainIncStream[input.var.at].kind = "tag"
    /\ PlainIncStream[input.var.at].head \in RequiredTags

\* The index of the header of the block that line p of s is in.
RECURSIVE BlockHeader(_, _)
BlockHeader(s, p) == IF s[p].kind = "hdr" THEN p ELSE BlockHeader(s, p - 1)

\* C24: when the commit information of a commit that is not cached lacks one
\* of author, author-mail, author-time, committer, committer-mail and
\* committer-time, blame_incremental yields the entries of the blocks before
\* that block and then raises (KeyError) at it: the block gives no entry and
\* its commit id is never in the cache.
C24_IncompleteMetadataFails ==
    RequiredTagDropped =>
        LET h    == BlockHeader(PlainIncStream, input.var.at)
            sha  == istream[h].head
            k    == Len(SelectSeq(Positions(istream, "hdr", 1), LAMBDA p : p < h))
        IN  /\ sha \notin DOMAIN icommits
            /\ Len(ientries) <= k
            /\ \A i \in 1 .. Len(ientries) : HexSha(ientries[i].commit) # sha
            /\ ipc \in {"suspended", "KeyError"}
            /\ ipc = "KeyError" => Len(ientries) = k
            /\ (ipc = "suspended" /\ Len(ientries) = k) => IncNow.st = "KeyError"

C24_Witness ==
    /\ RequiredTagDropped
    /\ ipc = "KeyError"
    /\ Len(ientries) >= 1
    /\ PlainIncStream[input.var.at].head = "committer-time"

----------------------------------------------------------------------------
(* C25 *)

\* The index of the first filename line of s after line p.
NextFilename(s, p) ==
    CHOOSE i \in (p + 1) .. Len(s) :
        /\ s[i].kind = "tag" /\ s[i].head = "filename"
        /\ \A j \in (p + 1) .. (i - 1) : ~(s[j].kind = "tag" /\ s[j].head = "filename")

\* C25: a pull of blame_incremental that yields has read a header, then exactly
\* one line if the commit of the header was cached, and otherwise the lines up
\* to and including the first filename line; the generator is suspended at the
\* line after that.  On a well-formed stream the line read as a header is a
\* header, no header is among the lines read after it, and the line at which
\* the generator is suspended is a header or the end of the stream.
C25_BlockFraming ==
    [][ (input.plan # "full" /\ ipc = "suspended" /\ Len(ientries') = Len(ientries) + 1) =>
          /\ IF IncHexsha \in DOMAIN icommits
                THEN ipos' = ipos + 2
                ELSE ipos' = NextFilename(istream, ipos) + 1
          /\ istream[ipos' - 1].kind = "tag" /\ istream[ipos' - 1].head = "filename"
          /\ WellFormed(input) =>
                /\ istream[ipos].kind = "hdr"
                /\ \A p \in (ipos + 1) .. (ipos' - 1) : istream[p].kind # "hdr"
                /\ ipos' <= Len(istream) => istream[ipos'].kind = "hdr" ]_vars

\* A block of a cached commit (two lines) was read after a block with commit
\* information, and a further block follows.
C25_Witness ==
    /\ input.plan = "inc" /\ WellFormed(input) /\ ipc = "suspended"
    /\ Len(ientries) = 2
    /\ ientries[1].commit = ientries[2].commit
    /\ ipos <= Len(istream)
    /\ istream[ipos].kind = "hdr"
    /\ istream[ipos - 2].kind = "hdr"

----------------------------------------------------------------------------
(* C26 *)

----------------------------------------------------------------------------
(* C27 *)

\* A line of text that is no header, no author, author-mail, author-time,
\* committer, committer-mail or committer-time line, no filename or summary
\* line and no content line: boundary, previous, author-tz, committer-tz.
Ignored(line) ==
    /\ line.kind \in {"tag", "bare"}
    /\ line.head \notin {"author", "author-mail", "author-time", "committer",
                         "committer-mail", "committer-time", "filename", "summary"}

\* C27: blame() passes over such a line: the step that handles it does not
\* raise and changes neither the groups, nor the cache, nor info (no field is
\* added for a time zone), nor does it construct a Commit.
C27_IgnoredLines ==
    [][ (fpc = "loop" /\ fpos <= Len(fstream) /\ Ignored(fstream[fpos])) =>
          /\ fpc' = "loop"
          /\ fpos' \in {fpos, fpos + 1}
          /\ blames' = blames /\ fcommits' = fcommits /\ info' = info
          /\ fpos' = fpos + 1 => (built' = built /\ nobjs' = nobjs) ]_vars

\* The parse has passed a previous line, with the commit information around it
\* (time zone lines too), and gone on to the end.
C27_Witness ==
    /\ input.plan = "full" /\ input.var.kind = "previous" /\ WellFormed(input)
    /\ fpc = "returned"
    /\ Len(blames) >= 2
    /\ \E p \in 1 .. Len(fstream) : fstream[p].head = "committer-tz"

----------------------------------------------------------------------------
(* C28 *)

\* C28: a call of on_activated_async never replaces a git_manager that is set.
\* While git_manager is None, the call constructs it for the folder of the
\* window of the activated view if that window has a folder and the folder is
\* a git repository; otherwise the call raises, closes nothing and leaves
\* git_manager None, so that the next call tries again.  (So git_manager is
\* that of the first activated view for which the construction succeeded.)
C28_ListenerInitialisation ==
    [][ /\ git_manager # None => git_manager' = git_manager
        /\ git_manager = None =>
              LET dir == project.folder[views[event'.view].window_id]
              IN  IF dir # None /\ dir \in project.repos
                      THEN /\ git_manager' = [repo |-> [working_dir |-> dir]]
                           /\ event'.st \notin {"KeyError", "InvalidGitRepositoryError"}
                      ELSE /\ git_manager' = None
                           /\ event'.st \in {"KeyError", "InvalidGitRepositoryError"}
                           /\ views' = views ]_vars

\* The manager is that of the folder of window 2; the last call was for a view
\* of window 1, whose folder is a repository too, and it returned.
C28_Witness ==
    /\ git_manager # None
    /\ git_manager.repo.working_dir = DirQ
    /\ DirP \in project.repos
    /\ event.st = "returned"
    /\ WindowAtStart(event.view) = 1
    /\ \E t \in ViewIds : views[t].window_id = 0

----------------------------------------------------------------------------
(* C29 *)

\* The directories from the root down to epath.
Ancestry == { PathOfDepth(k) : k \in 0 .. Len(disk.path) }

\* The call has ended, with an exception or with the object.
RepoEnded == opening.pc \in {"NoSuchPathError", "InvalidGitRepositoryError", "constructed"}

\* C29: without search_parent_directories (the default, which GitManager
\* uses) Repo(path) looks at the given directory only, in one pass of the
\* loop: it raises NoSuchPathError exactly if the path does not exist and
\* InvalidGitRepositoryError exactly if it exists and neither is a git
\* directory nor holds one, whatever its parent directories are; otherwise
\* the git directory is the path or its .git.  With search_parent_directories
\* every pass of the loop moves one directory up, so that there are at most
\* as many passes as directories from the path to the root, and a loop that
\* found no git directory has stopped at the root after looking at each of
\* them.
C29_RepositoryDiscovery ==
    opening.pc # "idle" =>
        LET epath == disk.path
            here  == disk.kind[Len(epath)]
        IN  /\ ~disk.search_parent_directories =>
                /\ opening.examined \subseteq {epath}
                /\ opening.passes <= 1
                /\ RepoEnded =>
                     /\ opening.pc = "NoSuchPathError" <=> ~disk.exists
                     /\ opening.pc = "InvalidGitRepositoryError" <=>
                            (disk.exists /\ here = "plain")
                     /\ opening.pc = "constructed" =>
                            opening.git_dir = IF here = "gitdir" THEN Dir(epath)
                                              ELSE Dir(Join(epath, ".git"))
            /\ disk.search_parent_directories =>
                /\ opening.passes <= Len(epath) + 1
                /\ opening.pc = "loop" =>
                       Len(opening.curpath.dir) + opening.passes = Len(epath)
                /\ opening.pc = "NoSuchPathError" <=> (RepoEnded /\ ~disk.exists)
                /\ (opening.pc \in {"after", "InvalidGitRepositoryError"}
                        /\ opening.git_dir = None) =>
                       /\ opening.curpath.dir = <<>>
                       /\ opening.examined = Ancestry
                       /\ \A d \in Ancestry : disk.kind[Len(d)] = "plain"

\* Repo(path) without search_parent_directories has raised
\* InvalidGitRepositoryError for a plain directory two levels below a working
\* tree.
C29_Witness ==
    /\ opening.pc = "InvalidGitRepositoryError"
    /\ ~disk.search_parent_directories
    /\ Len(disk.path) >= 2
    /\ disk.kind[Len(disk.path) - 2] = "worktree"
    /\ opening.passes = 1

============================================================================
